---- MODULE Spec2Model ----
(***************************************************************************)
(* A model of pnr/routed-to-world/convert.py: the converter that splats    *)
(* the router's palette-compressed block array into a chunked world.       *)
(*                                                                         *)
(*   Spec       one run of main() on a bounded input file                  *)
(*   SpecBlock  main()'s palette decoding over bounded palette names       *)
(*   SpecStore  WorldWrapper driven by arbitrary set_block and             *)
(*              add_tile_entity calls                                      *)
(*                                                                         *)
(* Python strings that the code takes apart (palette names) are sequences  *)
(* of one-character strings; dicts are functions; a JSON value is a record *)
(* tagged with its Python type; list indices are 0-based as in the source  *)
(* (element i of a list is seq[i + 1]).                                    *)
(***************************************************************************)
EXTENDS Integers, Sequences, FiniteSets, TLC

VARIABLES pc, in_data, config, palette, cell, world, calls, err

vars == <<pc, in_data, config, palette, cell, world, calls, err>>

(* ------------------------------ bounds --------------------------------- *)

\* each extent of the input is drawn from 0 .. MaxExt
MaxExt == 2
\* the blocks array of the input has at most MaxLen entries
MaxLen == 4
\* a palette name has at most MaxNameLen characters
MaxNameLen == 4
\* SpecStore makes at most MaxCalls calls on the WorldWrapper
MaxCalls == 3

(* ------------------------- program constants --------------------------- *)

\* the side of a chunk's footprint: divmod(x, 16), range(16), // 16
ChunkSize == 16
\* parse_args default of --base-y
DefaultBaseY == 3

(* ------------------------------ helpers -------------------------------- *)

Last(s) == s[Len(s)]

\* d[k] = v on a dict
Put(d, k, v) == [j \in DOMAIN d \cup {k} |-> IF j = k THEN v ELSE d[j]]

\* the absent value
None == [none |-> TRUE]

\* s[lo:hi] on a string or list, negative bounds counting from the end
PySlice(s, lo, hi) ==
  LET n == Len(s)
      norm(i) == IF i < 0 THEN (IF i + n < 0 THEN 0 ELSE i + n)
                 ELSE (IF i > n THEN n ELSE i)
      a == norm(lo)
      b == norm(hi)
  IN IF a >= b THEN <<>> ELSE SubSeq(s, a + 1, b)

\* s.find(ch): the 0-based index of the first occurrence, -1 when there is none
PyFind(s, ch) ==
  IF \E i \in 1..Len(s) : s[i] = ch
  THEN (CHOOSE i \in 1..Len(s) : s[i] = ch /\ \A j \in 1..(i - 1) : s[j] # ch) - 1
  ELSE -1

\* divmod(a, b) for b > 0: the floored quotient and the remainder in 0 .. b-1
divmod(a, b) == <<a \div b, a % b>>

\* a // b written as a division that truncates toward zero
floordiv_Truncating(a, b) == IF a >= 0 THEN a \div b ELSE -((-a) \div b)

\* a // b for b > 0
floordiv(a, b) == a \div b

(* ----------------------------- amulet_nbt ------------------------------ *)

TAG_Byte(v) == [tag |-> "Byte", i |-> v]
TAG_Int(v) == [tag |-> "Int", i |-> v]
TAG_String(v) == [tag |-> "String", s |-> v]
TAG_Compound(d) == [tag |-> "Compound", d |-> d]

\* JSON values as json.load returns them, by Python type
JNum(n) == [kind |-> "int", i |-> n]
JStr(t) == [kind |-> "str", s |-> t]
JBool(b) == [kind |-> "bool", b |-> b]
JObj(d) == [kind |-> "dict", d |-> d]

RECURSIVE json_to_nbt(_)
json_to_nbt(data) ==
  [k \in DOMAIN data |->
     LET v == data[k] IN
     IF v.kind = "dict" THEN TAG_Compound(json_to_nbt(v.d))
     ELSE IF v.kind = "str" THEN TAG_String(v.s)
     ELSE IF v.kind = "bool" THEN (IF v.b THEN TAG_String("true") ELSE TAG_String("false"))
     ELSE TAG_Byte(v.i)]

\* amulet.Block(namespace, base_name, properties)
Block(namespace, base_name, properties) ==
  [namespace |-> namespace, base_name |-> base_name, properties |-> properties]

json_to_block(data) ==
  LET properties == IF "properties" \in DOMAIN data
                    THEN json_to_nbt(data["properties"]) ELSE None
      fqn == data["name"]
      i == PyFind(fqn, ":")
      namespace == PySlice(fqn, 0, i)
      base_name == PySlice(fqn, i + 1, Len(fqn))
  IN Block(namespace, base_name, properties)

(* ----------------------------- WorldWrapper ---------------------------- *)

(* The wrapper is the record [chunk_cache, amulet]: chunk_cache maps        *)
(* <<cx, cz>> to a chunk, and amulet is the trace of the calls the wrapper  *)
(* has made on the amulet library, in order: Chunk(cx, cz), put_chunk,      *)
(* the bedrock loop of get_chunk, chunk.set_block, block_entities.insert    *)
(* and world.save.  A chunk carries the identity id of the Chunk object.    *)

\* amulet.Block('minecraft', 'bedrock'), names abbreviated to one letter
BEDROCK == Block(<<"m">>, <<"b">>, None)

\* WorldWrapper.__init__
WorldWrapper == [chunk_cache |-> <<>>, amulet |-> <<>>]

\* the number of Chunk objects constructed so far
ChunksMade(w) == Cardinality({n \in 1..Len(w.amulet) : w.amulet[n].op = "Chunk"})

\* amulet.api.chunk.Chunk(cx, cz): no blocks, no block entities, not changed
Chunk(cx, cz, id) ==
  [cx |-> cx, cz |-> cz, id |-> id, blocks |-> <<>>, block_entities |-> <<>>,
   changed |-> FALSE]

\* chunk.set_block(x, y, z, block)
chunk_set_block(chunk, x, y, z, block) ==
  [chunk EXCEPT !.blocks = Put(@, <<x, y, z>>, block)]

\* for x in range(16): for z in range(16): chunk.set_block(x, 0, z, self.BEDROCK)
bedrock_floor(chunk) ==
  LET floor == {<<x, 0, z>> : x \in 0..(ChunkSize - 1), z \in 0..(ChunkSize - 1)}
  IN [chunk EXCEPT !.blocks = [c \in DOMAIN @ \cup floor |->
                                 IF c \in floor THEN BEDROCK ELSE @[c]]]

\* get_chunk without the lookup in chunk_cache: a new chunk on every call
get_chunk_NoLookup(w, cx, cz) ==
  LET coords == <<cx, cz>>
      chunk == Chunk(cx, cz, ChunksMade(w) + 1)
      filled == [bedrock_floor(chunk) EXCEPT !.changed = TRUE]
  IN [chunk_cache |-> Put(w.chunk_cache, coords, filled),
      amulet |-> w.amulet \o << [op |-> "Chunk", id |-> chunk.id, key |-> coords],
                                [op |-> "put_chunk", id |-> chunk.id, key |-> coords,
                                 changed |-> chunk.changed],
                                [op |-> "bedrock", id |-> chunk.id, key |-> coords] >>]

\* get_chunk: the wrapper after the call; the chunk returned is
\* get_chunk(w, cx, cz).chunk_cache[<<cx, cz>>]
get_chunk(w, cx, cz) ==
  LET coords == <<cx, cz>> IN
  IF coords \in DOMAIN w.chunk_cache
  THEN w
  ELSE LET chunk == Chunk(cx, cz, ChunksMade(w) + 1)
           filled == [bedrock_floor(chunk) EXCEPT !.changed = TRUE]
       IN [chunk_cache |-> Put(w.chunk_cache, coords, filled),
           amulet |-> w.amulet \o << [op |-> "Chunk", id |-> chunk.id, key |-> coords],
                                     [op |-> "put_chunk", id |-> chunk.id, key |-> coords,
                                      changed |-> chunk.changed],
                                     [op |-> "bedrock", id |-> chunk.id, key |-> coords] >>]

\* the cached chunks in the order of chunk_cache.values(): insertion order
CacheOrder(w) ==
  [n \in 1..Cardinality(DOMAIN w.chunk_cache) |->
     CHOOSE k \in DOMAIN w.chunk_cache : w.chunk_cache[k].id = n]

\* for chunk in self.chunk_cache.values(): chunk.changed = True; put_chunk(chunk)
cleanup(w) ==
  LET marked == [k \in DOMAIN w.chunk_cache |->
                   [w.chunk_cache[k] EXCEPT !.changed = TRUE]]
  IN [chunk_cache |-> marked,
      amulet |-> w.amulet \o
                 [n \in 1..Cardinality(DOMAIN w.chunk_cache) |->
                    [op |-> "put_chunk", id |-> n, key |-> CacheOrder(w)[n],
                     changed |-> marked[CacheOrder(w)[n]].changed]]]

set_block(w, x, y, z, block) ==
  LET cx == divmod(x, ChunkSize)[1]
      lx == divmod(x, ChunkSize)[2]
      cz == divmod(z, ChunkSize)[1]
      lz == divmod(z, ChunkSize)[2]
      w1 == get_chunk(w, cx, cz)
      chunk == w1.chunk_cache[<<cx, cz>>]
  IN [chunk_cache |-> Put(w1.chunk_cache, <<cx, cz>>,
                          chunk_set_block(chunk, lx, y, lz, block)),
      amulet |-> Append(w1.amulet,
                        [op |-> "set_block", id |-> chunk.id, key |-> <<cx, cz>>,
                         at |-> <<lx, y, lz>>, block |-> block])]

\* amulet.api.block_entity.BlockEntity(namespace, base_name, x, y, z, nbt)
BlockEntity(namespace, base_name, x, y, z, nbt) ==
  [namespace |-> namespace, base_name |-> base_name, x |-> x, y |-> y, z |-> z,
   nbt |-> nbt]

\* chunk.block_entities.insert(entity): the container is keyed by location
insert(chunk, entity) ==
  [chunk EXCEPT !.block_entities = Put(@, <<entity.x, entity.y, entity.z>>, entity)]

add_tile_entity(w, entity) ==
  LET pos == <<entity.x, entity.y, entity.z>>
      cx == floordiv(pos[1], ChunkSize)
      cz == floordiv(pos[3], ChunkSize)
      w1 == get_chunk(w, cx, cz)
      chunk == w1.chunk_cache[<<cx, cz>>]
  IN [chunk_cache |-> Put(w1.chunk_cache, <<cx, cz>>, insert(chunk, entity)),
      amulet |-> Append(w1.amulet,
                        [op |-> "insert", id |-> chunk.id, key |-> <<cx, cz>>,
                         entity |-> entity])]

\* save with world.save() called before cleanup
save_BeforeCleanup(w) ==
  cleanup([w EXCEPT !.amulet = Append(@, [op |-> "save"])])

save(w) ==
  LET w1 == cleanup(w)
  IN [w1 EXCEPT !.amulet = Append(@, [op |-> "save"])]

(* -------------------------------- main --------------------------------- *)

(* The input file.  A blocks entry is a dict with 'pi' and, when it carries *)
(* metadata, 'nbt', 'namespace' and 'base_name'; every pi is a valid index  *)
(* of the palette.  The length of blocks is free: it need not match the     *)
(* extents.                                                                 *)

PaletteIn ==
  << [name |-> <<"m", ":", "a">>],
     [name |-> <<"m", ":", "s">>, properties |-> [powered |-> JBool(TRUE)]] >>

\* an entry without metadata
EntryPlain == [pi |-> 0]
\* an entry with metadata of every JSON type, two of its keys named like the
\* keys main sets
EntryChest ==
  [pi |-> 1,
   nbt |-> [foo |-> JNum(1), x |-> JNum(9), keepPacked |-> JNum(1),
            lit |-> JBool(FALSE), id |-> JStr("c"), inner |-> JObj([n |-> JNum(2)])],
   namespace |-> "mc", base_name |-> "chest"]

Entries == {EntryPlain, EntryChest}

BlockArrays == UNION {[1..n -> Entries] : n \in 0..MaxLen}

\* --base-x, --base-y, --base-z: the default and offsets that put the grid
\* across a chunk border, at negative coordinates and on the y = 0 layer
Bases == {<<0, DefaultBaseY, 0>>, <<15, 0, 15>>, <<-1, DefaultBaseY, -17>>, <<-16, 1, 31>>}

\* the first iteration of: for y in range(ey): for x in range(ex): for z in range(ez)
\* (<<>> when the loops have no iteration)
FirstCell(ex, ey, ez) ==
  IF ey > 0 /\ ex > 0 /\ ez > 0 THEN <<0, 0, 0>> ELSE <<>>

\* NextCell with the x loop written as range(ez)
NextCell_XRangeEz(c, ex, ey, ez) ==
  LET y == c[1]
      x == c[2]
      z == c[3]
  IN IF z + 1 < ez THEN <<y, x, z + 1>>
     ELSE IF x + 1 < ez THEN <<y, x + 1, 0>>
     ELSE IF y + 1 < ey THEN <<y + 1, 0, 0>>
     ELSE <<>>

\* NextCell with the x loop innermost and the z loop in the middle
NextCell_XInnermost(c, ex, ey, ez) ==
  LET y == c[1]
      x == c[2]
      z == c[3]
  IN IF x + 1 < ex THEN <<y, x + 1, z>>
     ELSE IF z + 1 < ez THEN <<y, 0, z + 1>>
     ELSE IF y + 1 < ey THEN <<y + 1, 0, 0>>
     ELSE <<>>

\* the iteration after <<y, x, z>>: z is the innermost loop, y the outermost
NextCell(c, ex, ey, ez) ==
  LET y == c[1]
      x == c[2]
      z == c[3]
  IN IF z + 1 < ez THEN <<y, x, z + 1>>
     ELSE IF x + 1 < ex THEN <<y, x + 1, 0>>
     ELSE IF y + 1 < ey THEN <<y + 1, 0, 0>>
     ELSE <<>>

\* LinearIndex with the z stride taken from ez
LinearIndex_StrideEz(x, y, z, ex, ez) == x + z * ez + y * ex * ez

\* i = x + z * ex + y * ex * ez
LinearIndex(x, y, z, ex, ez) == x + z * ex + y * ex * ez

ex == in_data.extents.x
ey == in_data.extents.y
ez == in_data.extents.z
block_data == in_data.blocks

Init ==
  /\ pc = "start"
  /\ in_data \in [extents : [x : 0..MaxExt, y : 0..MaxExt, z : 0..MaxExt],
                  palette : {PaletteIn},
                  blocks : BlockArrays]
  /\ config \in {[base_x |-> b[1], base_y |-> b[2], base_z |-> b[3]] : b \in Bases}
  /\ palette = <<>>
  /\ cell = <<>>
  /\ world = WorldWrapper
  /\ calls = <<>>
  /\ err = "none"

\* palette = list(map(json_to_block, in_data['palette'])), up to the loop heads
DecodePalette ==
  /\ pc = "start"
  /\ palette' = [n \in 1..Len(in_data.palette) |-> json_to_block(in_data.palette[n])]
  /\ cell' = FirstCell(ex, ey, ez)
  /\ pc' = IF FirstCell(ex, ey, ez) = <<>> THEN "save" ELSE "walk"
  /\ UNCHANGED <<in_data, config, world, calls, err>>

\* entity_nbt that keeps the keys the decoded nbt already holds (setdefault)
entity_nbt_KeepsDecoded(block_info, xx, yy, zz) ==
  LET d0 == json_to_nbt(block_info["nbt"])
      stamped == [x |-> TAG_Int(xx), y |-> TAG_Int(yy), z |-> TAG_Int(zz),
                  keepPacked |-> TAG_Int(0)]
  IN [k \in DOMAIN d0 \cup DOMAIN stamped |->
        IF k \in DOMAIN d0 THEN d0[k] ELSE stamped[k]]

\* the entity_data of one loop body: the decoded nbt with x, y, z, keepPacked set
entity_nbt(block_info, xx, yy, zz) ==
  LET d0 == json_to_nbt(block_info["nbt"])
      d1 == Put(d0, "x", TAG_Int(xx))
      d2 == Put(d1, "y", TAG_Int(yy))
      d3 == Put(d2, "z", TAG_Int(zz))
  IN Put(d3, "keepPacked", TAG_Int(0))

\* one iteration of the loop body
WalkCell ==
  /\ pc = "walk"
  /\ LET y == cell[1]
         x == cell[2]
         z == cell[3]
         i == LinearIndex(x, y, z, ex, ez)
     IN /\ i < Len(block_data)
        /\ LET block_info == block_data[i + 1]
               block == palette[block_info["pi"] + 1]
               xx == x + config.base_x
               yy == y + config.base_y
               zz == z + config.base_z
               w1 == set_block(world, xx, yy, zz, block)
               c1 == Append(calls, [op |-> "set_block", x |-> xx, y |-> yy, z |-> zz,
                                    block |-> block, i |-> i])
               entity == BlockEntity(block_info["namespace"], block_info["base_name"],
                                     xx, yy, zz, entity_nbt(block_info, xx, yy, zz))
           IN IF "nbt" \in DOMAIN block_info
              THEN /\ world' = add_tile_entity(w1, entity)
                   /\ calls' = Append(c1, [op |-> "add_tile_entity", entity |-> entity,
                                           i |-> i])
              ELSE /\ world' = w1
                   /\ calls' = c1
        /\ cell' = NextCell(cell, ex, ey, ez)
        /\ pc' = IF NextCell(cell, ex, ey, ez) = <<>> THEN "save" ELSE "walk"
  /\ UNCHANGED <<in_data, config, palette, err>>

\* block_data[i] with i past the end of the list: IndexError leaves main
WalkIndexError ==
  /\ pc = "walk"
  /\ LinearIndex(cell[2], cell[1], cell[3], ex, ez) >= Len(block_data)
  /\ pc' = "error"
  /\ err' = "IndexError"
  /\ UNCHANGED <<in_data, config, palette, cell, world, calls>>

\* world.save() after the loops
Save ==
  /\ pc = "save"
  /\ world' = save(world)
  /\ calls' = Append(calls, [op |-> "save"])
  /\ pc' = "done"
  /\ UNCHANGED <<in_data, config, palette, cell, err>>

Next == DecodePalette \/ WalkCell \/ WalkIndexError \/ Save

Spec == Init /\ [][Next]_vars

(* ------------------- SpecBlock: the palette decoding ------------------- *)

\* the characters of a palette name: the separator and two letters
NameChars == {":", "m", "s"}

Names == UNION {[1..n -> NameChars] : n \in 0..MaxNameLen}

PaletteEntries ==
  {[name |-> nm] : nm \in Names}
    \cup {[name |-> nm, properties |-> [powered |-> JBool(TRUE)]] : nm \in Names}

\* an input file whose palette is one entry and whose grid is empty
InitBlock ==
  /\ pc = "start"
  /\ in_data \in [extents : {[x |-> 0, y |-> 0, z |-> 0]},
                  palette : {<<e>> : e \in PaletteEntries},
                  blocks : {<<>>}]
  /\ config = [base_x |-> 0, base_y |-> DefaultBaseY, base_z |-> 0]
  /\ palette = <<>>
  /\ cell = <<>>
  /\ world = WorldWrapper
  /\ calls = <<>>
  /\ err = "none"

SpecBlock == InitBlock /\ [][DecodePalette]_vars

(* ------------------ SpecStore: the WorldWrapper alone ------------------ *)

\* absolute (x, z) positions on both sides of chunk borders, negative ones included
StorePoints == {<<15, 15>>, <<16, 16>>, <<0, 0>>, <<-1, -17>>}

\* heights of the blocks written: the bedrock layer and one above it
StoreYs == {0, 1}

\* height of the tile entities attached
StoreEntityYs == {1}

STONE == Block(<<"m">>, <<"s">>, None)

InitStore ==
  /\ pc = "api"
  /\ in_data = [extents |-> [x |-> 0, y |-> 0, z |-> 0], palette |-> <<>>,
                blocks |-> <<>>]
  /\ config = [base_x |-> 0, base_y |-> DefaultBaseY, base_z |-> 0]
  /\ palette = <<>>
  /\ cell = <<>>
  /\ world = WorldWrapper
  /\ calls = <<>>
  /\ err = "none"

\* world.set_block(x, y, z, block)
ApiSetBlock ==
  /\ pc = "api"
  /\ Len(calls) < MaxCalls
  /\ \E p \in StorePoints, y \in StoreYs :
       /\ world' = set_block(world, p[1], y, p[2], STONE)
       /\ calls' = Append(calls, [op |-> "set_block", x |-> p[1], y |-> y, z |-> p[2],
                                  block |-> STONE])
  /\ UNCHANGED <<pc, in_data, config, palette, cell, err>>

\* world.add_tile_entity(entity)
ApiAddTileEntity ==
  /\ pc = "api"
  /\ Len(calls) < MaxCalls
  /\ \E p \in StorePoints, y \in StoreEntityYs :
       LET entity == BlockEntity("mc", "sign", p[1], y, p[2],
                                 [x |-> TAG_Int(p[1]), y |-> TAG_Int(y),
                                  z |-> TAG_Int(p[2]), keepPacked |-> TAG_Int(0)])
       IN /\ world' = add_tile_entity(world, entity)
          /\ calls' = Append(calls, [op |-> "add_tile_entity", entity |-> entity])
  /\ UNCHANGED <<pc, in_data, config, palette, cell, err>>

NextStore == ApiSetBlock \/ ApiAddTileEntity

SpecStore == InitStore /\ [][NextStore]_vars

(* ------------------------------- claims -------------------------------- *)

\* the input is valid: blocks has one entry per cell of the extents
ValidInput == Len(block_data) = ex * ey * ez

\* the positions in calls of the set_block calls, and of the add_tile_entity calls
SetBlockCalls == {n \in 1..Len(calls) : calls[n].op = "set_block"}
TileEntityCalls == {n \in 1..Len(calls) : calls[n].op = "add_tile_entity"}

\* the cuboid [base, base + extents)
Cuboid ==
  {<<config.base_x + x, config.base_y + y, config.base_z + z>> :
     x \in 0..(ex - 1), y \in 0..(ey - 1), z \in 0..(ez - 1)}

C2_IndexMap ==
  /\ ValidInput => err = "none"
  /\ \A n \in SetBlockCalls : calls[n].i \in 0..(Len(block_data) - 1)
  /\ (ValidInput /\ pc = "done") =>
       /\ \A x \in 0..(ex - 1), y \in 0..(ey - 1), z \in 0..(ez - 1) :
            \E n \in SetBlockCalls :
              /\ calls[n].x = config.base_x + x
              /\ calls[n].y = config.base_y + y
              /\ calls[n].z = config.base_z + z
              /\ calls[n].i = x + z * ex + y * ex * ez
              /\ calls[n].block = palette[block_data[calls[n].i + 1]["pi"] + 1]
       /\ \A j \in 0..(Len(block_data) - 1) :
            Cardinality({n \in SetBlockCalls : calls[n].i = j}) = 1

C2_Witness ==
  /\ pc = "done"
  /\ ValidInput
  /\ ex = 2 /\ ey = 1 /\ ez = 2
  /\ block_data[2] # block_data[3]
  /\ \E n \in SetBlockCalls : calls[n].i = 2 /\ calls[n].block = palette[2]

\* C3 as stated: the set_block calls of a run come in the ascending order of the
\* linear index x + z*ex + y*ex*ez (x varies fastest).
C3_LinearIndexOrder ==
  \A n, m \in SetBlockCalls : n < m => calls[n].i < calls[m].i

\* the position of a set_block call in a walk where z varies fastest, then x, then y
WalkRank(c) ==
  (c.z - config.base_z) + (c.x - config.base_x) * ez
    + (c.y - config.base_y) * ex * ez

\* C3 amended: the set_block calls of a run come with y varying slowest and z
\* fastest: the k-th call is the cell of rank k-1 in the order z + x*ez + y*ex*ez,
\* so consecutive calls of one (y, x) column differ only in z.
C3_ZFastestOrder ==
  /\ \A n, m \in SetBlockCalls :
       n < m => WalkRank(calls[n]) < WalkRank(calls[m])
  /\ \A n \in SetBlockCalls :
       WalkRank(calls[n]) = Cardinality({m \in SetBlockCalls : m < n})
  /\ \A n, m \in SetBlockCalls :
       (n < m /\ \A j \in SetBlockCalls : ~(n < j /\ j < m)
          /\ calls[n].y = calls[m].y /\ calls[n].x = calls[m].x)
       => calls[m].z = calls[n].z + 1

C3_Witness ==
  /\ pc = "done"
  /\ ValidInput
  /\ ex = 2 /\ ez = 2 /\ ey = 1
  /\ \E n, m \in SetBlockCalls : n < m /\ calls[n].i > calls[m].i

\* c is the floor of a / 16, stated without division
IsFloor16(c, a) == 16 * c <= a /\ a < 16 * c + 16

\* the calls the wrapper made on chunks, one per set_block or add_tile_entity call
ChunkOps ==
  LET IsOp(e) == e.op \in {"set_block", "insert"}
  IN SelectSeq(world.amulet, IsOp)

\* the absolute x and z of a call on the wrapper
CallX(c) == IF c.op = "set_block" THEN c.x ELSE c.entity.x
CallY(c) == IF c.op = "set_block" THEN c.y ELSE c.entity.y
CallZ(c) == IF c.op = "set_block" THEN c.z ELSE c.entity.z

\* C4: for every absolute (x, z), negative ones included, set_block and
\* add_tile_entity act on the chunk (floor(x/16), floor(z/16)); set_block writes
\* at local offsets in 0..15 that add up to x and z again; a tile entity sits in
\* the chunk that holds the block of its position; (15, y, 15) is in chunk (0, 0)
\* and (16, y, 16) in chunk (1, 1).
C4_FloorChunk ==
  /\ Len(ChunkOps) = Len(calls)
  /\ \A n \in 1..Len(calls) :
       LET c == calls[n]
           t == ChunkOps[n]
       IN /\ IsFloor16(t.key[1], CallX(c))
          /\ IsFloor16(t.key[2], CallZ(c))
          /\ t.key \in DOMAIN world.chunk_cache
          /\ c.op = "set_block" =>
               /\ t.op = "set_block"
               /\ t.at[1] \in 0..15 /\ t.at[3] \in 0..15
               /\ 16 * t.key[1] + t.at[1] = c.x
               /\ t.at[2] = c.y
               /\ 16 * t.key[2] + t.at[3] = c.z
               /\ world.chunk_cache[t.key].blocks[t.at] = c.block
          /\ c.op = "add_tile_entity" =>
               /\ t.op = "insert"
               /\ <<c.entity.x, c.entity.y, c.entity.z>>
                    \in DOMAIN world.chunk_cache[t.key].block_entities
          /\ (CallX(c) = 15 /\ CallZ(c) = 15) => t.key = <<0, 0>>
          /\ (CallX(c) = 16 /\ CallZ(c) = 16) => t.key = <<1, 1>>
  /\ \A n, m \in 1..Len(calls) :
       (CallX(calls[n]) = CallX(calls[m]) /\ CallZ(calls[n]) = CallZ(calls[m]))
       => ChunkOps[n].key = ChunkOps[m].key

C4_Witness ==
  /\ \E n, m \in 1..Len(calls) :
       /\ calls[n].op = "set_block" /\ calls[n].x = -1 /\ calls[n].z = -17
       /\ calls[m].op = "add_tile_entity"
       /\ calls[m].entity.x = -1 /\ calls[m].entity.z = -17
       /\ ChunkOps[n].key = <<-1, -2>>
       /\ ChunkOps[n].at[1] = 15 /\ ChunkOps[n].at[3] = 15
  /\ \E n \in 1..Len(calls) : CallX(calls[n]) = 16 /\ CallZ(calls[n]) = 16

FloorKey(c) ==
  CHOOSE k \in {<<a, b>> : a \in -4..4, b \in -4..4} :
    IsFloor16(k[1], CallX(c)) /\ IsFloor16(k[2], CallZ(c))

\* the events of the amulet trace of one kind on one chunk key
EventsOf(kind, k) ==
  {n \in 1..Len(world.amulet) :
     world.amulet[n].op = kind /\ world.amulet[n].key = k}

\* C6: after any sequence of set_block and add_tile_entity calls the cache holds
\* a chunk for exactly the footprints touched; for each, one Chunk object was made
\* and the bedrock loop ran once; every access to a footprint acted on that same
\* object; and every block and tile entity written is still in it.
C6_ChunkCreatedOnce ==
  /\ DOMAIN world.chunk_cache = {FloorKey(calls[n]) : n \in 1..Len(calls)}
  /\ \A k \in DOMAIN world.chunk_cache :
       /\ Cardinality(EventsOf("Chunk", k)) = 1
       /\ Cardinality(EventsOf("bedrock", k)) = 1
       /\ Cardinality(EventsOf("put_chunk", k)) = 1
       /\ \A n \in EventsOf("Chunk", k) \cup EventsOf("set_block", k)
                     \cup EventsOf("insert", k) :
            world.amulet[n].id = world.chunk_cache[k].id
  /\ \A n \in 1..Len(world.amulet) :
       world.amulet[n].op = "Chunk" => world.amulet[n].key \in DOMAIN world.chunk_cache
  /\ \A k, j \in DOMAIN world.chunk_cache :
       world.chunk_cache[k].id = world.chunk_cache[j].id => k = j
  /\ \A n \in 1..Len(world.amulet) :
       LET t == world.amulet[n] IN
       /\ t.op = "set_block" =>
            /\ t.at \in DOMAIN world.chunk_cache[t.key].blocks
            /\ world.chunk_cache[t.key].blocks[t.at] = t.block
       /\ t.op = "insert" =>
            /\ <<t.entity.x, t.entity.y, t.entity.z>>
                 \in DOMAIN world.chunk_cache[t.key].block_entities
            /\ world.chunk_cache[t.key].block_entities[
                 <<t.entity.x, t.entity.y, t.entity.z>>] = t.entity
  /\ \A k \in DOMAIN world.chunk_cache :
       \A x \in 0..15, z \in 0..15 :
         (EventsOf("set_block", k) = {}
            \/ \A n \in EventsOf("set_block", k) : world.amulet[n].at # <<x, 0, z>>)
         => world.chunk_cache[k].blocks[<<x, 0, z>>] = BEDROCK

C6_Witness ==
  /\ Len(calls) = 3
  /\ calls[1].op = "set_block" /\ calls[1].x = 15 /\ calls[1].y = 1
  /\ calls[2].op = "add_tile_entity" /\ calls[2].entity.x = 16
  /\ calls[3].op = "set_block" /\ calls[3].x = 0
  /\ Cardinality(DOMAIN world.chunk_cache) = 2
  /\ world.chunk_cache[<<0, 0>>].blocks[<<15, 1, 15>>] = STONE

\* the positions in the amulet trace of the world.save calls
SaveEvents == {n \in 1..Len(world.amulet) : world.amulet[n].op = "save"}

\* C7: a run that succeeds ends with save: every cached chunk is marked changed
\* and put to the adapter, then world.save is called, once, as the last call made
\* on amulet: after every set_block and add_tile_entity, with nothing created or
\* modified after it; and no run calls world.save before it is done.
C7_SaveLast ==
  /\ pc # "done" => SaveEvents = {} /\ \A n \in 1..Len(calls) : calls[n].op # "save"
  /\ pc = "done" =>
       LET t == world.amulet
           nc == Cardinality(DOMAIN world.chunk_cache)
       IN /\ SaveEvents = {Len(t)}
          /\ {n \in 1..Len(calls) : calls[n].op = "save"} = {Len(calls)}
          /\ Len(t) > nc
          /\ \A n \in (Len(t) - nc)..(Len(t) - 1) :
               t[n].op = "put_chunk" /\ t[n].changed
          /\ \A k \in DOMAIN world.chunk_cache :
               /\ world.chunk_cache[k].changed
               /\ \E n \in (Len(t) - nc)..(Len(t) - 1) :
                    t[n].key = k /\ t[n].id = world.chunk_cache[k].id

C7_Witness ==
  /\ pc = "done"
  /\ Cardinality(DOMAIN world.chunk_cache) = 4
  /\ TileEntityCalls # {}
  /\ Last(world.amulet).op = "save"

\* the keys main sets on every entity_data
StampedKeys == {"x", "y", "z", "keepPacked"}

\* C8: a tile entity is made for a voxel exactly when its entry carries 'nbt' (so
\* a finished run has made as many as there are such entries); its data holds
\* x, y, z = the voxel's absolute coordinates (array position plus base) and
\* keepPacked = 0 as Int tags, whatever the metadata held under those keys, and
\* every other decoded key unchanged; and it is attached to the world.
C8_TileEntityStamped ==
  /\ \A n \in SetBlockCalls :
       ("nbt" \in DOMAIN block_data[calls[n].i + 1])
         <=> (n + 1 \in TileEntityCalls /\ calls[n + 1].i = calls[n].i)
  /\ \A n \in TileEntityCalls : n - 1 \in SetBlockCalls /\ calls[n - 1].i = calls[n].i
  /\ (ValidInput /\ pc = "done") =>
       Cardinality(TileEntityCalls)
         = Cardinality({j \in 1..Len(block_data) : "nbt" \in DOMAIN block_data[j]})
  /\ \A n \in TileEntityCalls :
       LET e == calls[n].entity
           x == e.x - config.base_x
           y == e.y - config.base_y
           z == e.z - config.base_z
           decoded == json_to_nbt(block_data[calls[n].i + 1]["nbt"])
       IN /\ x \in 0..(ex - 1) /\ y \in 0..(ey - 1) /\ z \in 0..(ez - 1)
          /\ calls[n].i = x + z * ex + y * ex * ez
          /\ DOMAIN e.nbt = DOMAIN decoded \cup StampedKeys
          /\ e.nbt["x"] = TAG_Int(e.x)
          /\ e.nbt["y"] = TAG_Int(e.y)
          /\ e.nbt["z"] = TAG_Int(e.z)
          /\ e.nbt["keepPacked"] = TAG_Int(0)
          /\ \A k \in DOMAIN decoded \ StampedKeys : e.nbt[k] = decoded[k]
          /\ \E k \in DOMAIN world.chunk_cache :
               /\ <<e.x, e.y, e.z>> \in DOMAIN world.chunk_cache[k].block_entities
               /\ world.chunk_cache[k].block_entities[<<e.x, e.y, e.z>>] = e

C8_Witness ==
  /\ pc = "done"
  /\ ValidInput
  /\ Len(block_data) = 4
  /\ block_data[1] = EntryPlain
  /\ block_data[4] = EntryChest
  /\ config.base_x = 15
  /\ \E n \in TileEntityCalls :
       /\ calls[n].i = 3
       /\ calls[n].entity.nbt["x"] = TAG_Int(16)
       /\ calls[n].entity.nbt["lit"] = TAG_String("false")
       /\ calls[n].entity.nbt["foo"] = TAG_Byte(1)

\* C9 as stated: decoding a palette entry whose name has no ':' fails with
\* MalformedPaletteEntry and makes no block; a name with ':' is split at its first
\* ':' into the namespace before it and the base name after it.
C9_MalformedNameRejected ==
  pc # "start" =>
    \A n \in 1..Len(in_data.palette) :
      LET nm == in_data.palette[n].name
          colons == {i \in 1..Len(nm) : nm[i] = ":"}
      IN IF colons = {}
         THEN err = "MalformedPaletteEntry" /\ palette = <<>>
         ELSE \E i \in colons :
                /\ \A j \in colons : i <= j
                /\ palette[n].namespace = SubSeq(nm, 1, i - 1)
                /\ palette[n].base_name = SubSeq(nm, i + 1, Len(nm))

\* C10 as stated: when the length of blocks differs from ex*ey*ez the run fails
\* with ExtentMismatch before any block is written, any chunk is made or put, and
\* world.save is never called.
C10_ExtentMismatchRejected ==
  Len(block_data) # ex * ey * ez =>
    /\ calls = <<>>
    /\ world = WorldWrapper
    /\ pc \in {"save", "done", "error"} => err = "ExtentMismatch"

====
